---- MODULE Spec2Model ----
(***************************************************************************)
(* A model of flow_parser.py: the JSON-to-report projection, the action    *)
(* deriver, the on-disk cache and the two generators that call the         *)
(* external text and image services.                                       *)
(*                                                                         *)
(* Text is a sequence of atoms (an atom is a run of characters that never  *)
(* contains a separator the program inserts), so string concatenation is   *)
(* \o and str.strip() is an operator on sequences.  A JSON scalar is a     *)
(* pair <<tag, text>> with tag "str", "num", "null", or "absent" for a key *)
(* the dictionary does not hold.                                           *)
(*                                                                         *)
(* The failures modelled are the ones the generators handle: no            *)
(* credential, the client failing to construct, the read or copy of a      *)
(* cache entry raising, the external call raising, an empty or malformed   *)
(* answer, a base64 payload that does not decode, a failed download, and   *)
(* the write of a cache entry failing.  A file write either stores the     *)
(* whole content or fails leaving the file as it was; writes to the output *)
(* directory succeed.                                                      *)
(***************************************************************************)
EXTENDS Integers, Sequences, FiniteSets, TLC

VARIABLES flow, pc, report, derived, files, env, call, ncalls, fetched, origin, orc, nloc, iloc

vars == <<flow, pc, report, derived, files, env, call, ncalls, fetched, origin, orc, nloc, iloc>>

----------------------------------------------------------------------------
(* Python values *)

None == <<"null", <<"None">>>>

Absent == <<"absent", <<"None">>>>

StrV(t) == <<"str", t>>

NumV(t) == <<"num", t>>

\* dict.get(key): a missing key reads as None
Get(v) == IF v = Absent THEN None ELSE v

\* truthiness of a scalar: None, "" and 0 are false
Truthy(v) == \/ v[1] = "str" /\ v[2] # <<>>
             \/ v[1] = "num" /\ v[2] # <<"0">>

\* str(v) and the formatting of v inside an f-string
PyStr(v) == v[2]

\* a or b
PyOr(a, b) == IF Truthy(a) THEN a ELSE b

IsStr(v) == v[1] = "str"

Whitespace == {" ", "\n"}

RECURSIVE lstrip(_)
lstrip(t) == IF t # <<>> /\ Head(t) \in Whitespace THEN lstrip(Tail(t)) ELSE t

RECURSIVE rstrip(_)
rstrip(t) == IF t # <<>> /\ t[Len(t)] \in Whitespace
             THEN rstrip(SubSeq(t, 1, Len(t) - 1)) ELSE t

\* str.strip()
strip(t) == rstrip(lstrip(t))

\* seq[:n]
Take(s, n) == SubSeq(s, 1, IF Len(s) < n THEN Len(s) ELSE n)

\* sep.join(parts), parts a sequence of texts
RECURSIVE Join(_, _)
Join(sep, parts) ==
    IF parts = <<>> THEN <<>>
    ELSE IF Len(parts) = 1 THEN parts[1]
    ELSE parts[1] \o sep \o Join(sep, Tail(parts))

Ok(v) == [raised |-> FALSE, val |-> v]

Raised == [raised |-> TRUE, val |-> <<>>]

----------------------------------------------------------------------------
(* Report Builder *)

\* flow.get("steps") or []
StepsOf(f) == IF f.steps.present THEN f.steps.list ELSE <<>>

extract_meta(f) ==
    [name |-> Get(f.name), useCase |-> Get(f.useCase),
     schemaVersion |-> Get(f.schemaVersion), description |-> Get(f.description),
     status |-> Get(f.status), created |-> Get(f.created)]

\* s.get(...) on an entry that is no dictionary raises AttributeError
RECURSIVE chapters_loop(_, _)
chapters_loop(steps, chapters) ==
    IF steps = <<>> THEN Ok(chapters)
    ELSE LET s == Head(steps) IN
         IF ~s.obj THEN Raised
         ELSE chapters_loop(Tail(steps),
                IF Get(s.type) = StrV(<<"CHAPTER">>)
                THEN Append(chapters, [id |-> Get(s.id), title |-> Get(s.title),
                                       subtitle |-> Get(s.subtitle)])
                ELSE chapters)

extract_chapters(steps) == chapters_loop(steps, <<>>)

RECURSIVE hotspot_labels(_)
hotspot_labels(hs) ==
    IF hs = <<>> THEN <<>>
    ELSE LET h == Head(hs) IN
         (IF h.obj /\ Truthy(Get(h.label)) THEN <<Get(h.label)>> ELSE <<>>)
         \o hotspot_labels(Tail(hs))

EmptyItem ==
    [id |-> Absent, type |-> Absent, title |-> Absent, subtitle |-> Absent,
     pageTitle |-> Absent, pageUrl |-> Absent, clickText |-> Absent,
     clickSelector |-> Absent, clickElementType |-> Absent, hotspotLabels |-> <<>>]

\* the body of the loop of extract_steps for one dictionary entry
step_item(s) ==
    LET t == Get(s.type)
        base == [EmptyItem EXCEPT !.id = Get(s.id), !.type = t]
    IN  IF t \in {StrV(<<"IMAGE">>), StrV(<<"VIDEO">>)} THEN
            LET page == s.pageContext
                click == s.clickContext
                withPage == [base EXCEPT
                    !.pageTitle = IF page.kind = "dict" THEN Get(page.title) ELSE None,
                    !.pageUrl = IF page.kind = "dict" THEN Get(page.url) ELSE None]
                withClick == IF click.kind = "dict"
                             THEN [withPage EXCEPT
                                     !.clickText = Get(click.text),
                                     !.clickSelector = Get(click.cssSelector),
                                     !.clickElementType = Get(click.elementType)]
                             ELSE withPage
            IN  [withClick EXCEPT !.hotspotLabels = hotspot_labels(s.hotspots)]
        ELSE IF t = StrV(<<"CHAPTER">>) THEN
            [base EXCEPT !.title = Get(s.title), !.subtitle = Get(s.subtitle)]
        ELSE base

RECURSIVE steps_loop(_, _)
steps_loop(steps, out) ==
    IF steps = <<>> THEN Ok(out)
    ELSE LET s == Head(steps) IN
         IF ~s.obj THEN Raised
         ELSE steps_loop(Tail(steps), Append(out, step_item(s)))

extract_steps(steps) == steps_loop(steps, <<>>)

NoReport == [meta |-> extract_meta([name |-> Absent, useCase |-> Absent,
                 schemaVersion |-> Absent, description |-> Absent,
                 status |-> Absent, created |-> Absent]),
             chapters |-> <<>>, steps |-> <<>>]

\* the dictionary literal evaluates its values in order; any raise escapes
build_report(f) ==
    LET steps == StepsOf(f)
        ch == extract_chapters(steps)
        st == extract_steps(steps)
    IN  IF ch.raised \/ st.raised THEN Raised
        ELSE Ok([meta |-> extract_meta(f), chapters |-> ch.val, steps |-> st.val])

----------------------------------------------------------------------------
(* Action Deriver *)

derive_title_title_only(s) == Get(s.title)

\* s.get("pageTitle") or s.get("title")
derive_title(s) == PyOr(Get(s.pageTitle), Get(s.title))

action_line(s) ==
    LET step_type == Get(s.type)
        click_text == Get(s.clickText)
        title == derive_title(s)
    IN  IF step_type = StrV(<<"CHAPTER">>) /\ Truthy(title)
        THEN <<"CHAPTER", ": ">> \o PyStr(title)
        ELSE IF Truthy(click_text)
        THEN PyStr(step_type) \o <<": ">> \o PyStr(click_text)
        ELSE IF Truthy(title) THEN PyStr(step_type) \o <<": ">> \o PyStr(title)
        ELSE PyStr(step_type)

takes_click_branch(s) ==
    /\ ~(Get(s.type) = StrV(<<"CHAPTER">>) /\ Truthy(derive_title(s)))
    /\ Truthy(Get(s.clickText))

RECURSIVE derive_loop(_, _, _)
derive_loop(steps, action_lines, actions) ==
    IF steps = <<>> THEN [action_lines |-> action_lines, actions |-> actions]
    ELSE LET s == Head(steps) IN
         derive_loop(Tail(steps), Append(action_lines, action_line(s)),
                     IF takes_click_branch(s)
                     THEN Append(actions, Get(s.clickText)) ELSE actions)

derive_actions(r) == derive_loop(r.steps, <<>>, <<>>)

----------------------------------------------------------------------------
(* Cache Store *)

get_cache_dir == <<".cache">>

\* os.path.join(a, b)
path_join(a, b) == a \o <<"/">> \o b

\* sha256(text)[:16], taken as collision-free: the digest stands for its input
make_cache_key(text) == <<"sha256:">> \o text

is_cache_enabled_always(e) == TRUE

\* os.getenv("ENABLE_CACHE", "1") == "1"
is_cache_enabled(e) ==
    (IF e.ENABLE_CACHE = Absent THEN StrV(<<"1">>) ELSE e.ENABLE_CACHE) = StrV(<<"1">>)

cache_file_one_name(prefix, key, suffix) == path_join(get_cache_dir, <<"entry">>)

\* os.path.join(get_cache_dir(), f"{prefix}{key}{suffix}")
cache_file(prefix, key, suffix) == path_join(get_cache_dir, prefix \o key \o suffix)

summary_cache_path(key) == cache_file(<<"summary-">>, key, <<".md">>)

image_cache_path(key) == cache_file(<<"image-">>, key, <<".png">>)

\* os.path.exists(path)
exists(fs, path) == path \in DOMAIN fs

\* open(path, "w").write(content) / shutil.copyfile onto path
write_file(fs, path, content) == (path :> content) @@ fs

IsCachePath(p) == Len(p) > 0 /\ p[1] = ".cache"

CacheOf(fs) == [p \in {q \in DOMAIN fs : IsCachePath(q)} |-> fs[p]]

NoFiles == [p \in {} |-> <<>>]

----------------------------------------------------------------------------
(* Client *)

MsgNoKey == "Error: OPENAI_API_KEY is not set in environment."

MsgNoClient == "Error: failed to import OpenAI client"

MsgEmptySummary == "Error: received empty summary from OpenAI."

MsgSummaryFailed == "Error: OpenAI request failed"

MsgDecode == "Error: failed to decode base64 image"

MsgDownload == "Error: failed to download image"

MsgNoData == "Error: image generation returned no data."

MsgImageFailed == "Error: image generation failed"

get_openai_client(e, o) ==
    IF ~Truthy(Get(e.OPENAI_API_KEY)) THEN [client |-> FALSE, diag |-> <<MsgNoKey>>]
    ELSE IF ~o.construct_ok THEN [client |-> FALSE, diag |-> <<MsgNoClient>>]
    ELSE [client |-> TRUE, diag |-> <<>>]

\* one activation of a generator: its position and its locals
Frame ==
    [pc |-> "client", result |-> Absent, ext |-> <<>>, diag |-> <<>>, read |-> FALSE,
     enable |-> FALSE, path |-> <<>>, data |-> <<>>, b64 |-> None, url |-> None]

Finish(loc, result) == [loc EXCEPT !.pc = "done", !.result = result]

Fail(loc, result, msg) ==
    [loc EXCEPT !.pc = "done", !.result = result, !.diag = Append(@, msg)]

Throw(loc) == [loc EXCEPT !.pc = "raise"]

----------------------------------------------------------------------------
(* Narrative Generator *)

ActionCap == 25

SummaryModel == <<"gpt-4o-mini">>

joined_actions(r) == Join(<<"\n">>, Take(derive_actions(r).action_lines, ActionCap))

\* str + str; anything else added to a str raises TypeError
summary_key_raises(r) ==
    LET name == Get(r.meta.name) IN Truthy(name) /\ ~IsStr(name)

summary_key_text(r) ==
    PyStr(PyOr(Get(r.meta.name), StrV(<<>>))) \o <<"\n">> \o joined_actions(r)
        \o <<"\n">> \o SummaryModel

user_prompt(r) ==
    <<"Name: ">> \o PyStr(Get(r.meta.name)) \o <<"\n">>
      \o <<"Use Case: ">> \o PyStr(Get(r.meta.useCase)) \o <<"\n", "\n">>
      \o <<"Actions (ordered):", "\n">> \o joined_actions(r)

summary_request(r) ==
    [api |-> "chat.completions", model |-> SummaryModel, prompt |-> user_prompt(r)]

\* lines 162-181 up to the cache probe
sum_client(loc, fs, e, o, r) ==
    LET c == get_openai_client(e, o) IN
    IF ~c.client THEN [loc |-> Fail(loc, None, c.diag[1]), fs |-> fs]
    ELSE IF summary_key_raises(r) THEN [loc |-> Throw(loc), fs |-> fs]
    ELSE LET enable_cache == is_cache_enabled(e)
             cache_path == summary_cache_path(make_cache_key(summary_key_text(r)))
             l2 == [loc EXCEPT !.enable = enable_cache, !.path = cache_path]
         IN  [loc |-> [l2 EXCEPT !.pc = IF enable_cache /\ exists(fs, cache_path)
                                        THEN "read" ELSE "request"],
              fs |-> fs]

\* lines 177-181
sum_read(loc, fs, o) ==
    IF o.read_fails THEN [loc |-> [loc EXCEPT !.pc = "request"], fs |-> fs]
    ELSE [loc |-> Finish([loc EXCEPT !.read = TRUE], StrV(strip(fs[loc.path]))),
          fs |-> fs]

summary_of_unstripped(content) ==
    IF ~Truthy(content) THEN <<>>
    ELSE IF IsStr(content) THEN PyStr(content) ELSE <<>>

\* (resp.choices[0].message.content or "").strip(), "" when that raises
summary_of(content) ==
    IF ~Truthy(content) THEN <<>>
    ELSE IF IsStr(content) THEN strip(PyStr(content)) ELSE <<>>

\* lines 183-218
sum_request(loc, fs, o, r) ==
    LET l2 == [loc EXCEPT !.ext = Append(@, summary_request(r))] IN
    IF o.text.raises THEN [loc |-> Throw(l2), fs |-> fs]
    ELSE LET summary == summary_of(o.text.content) IN
         IF summary = <<>> THEN [loc |-> Fail(l2, None, MsgEmptySummary), fs |-> fs]
         ELSE [loc |-> [l2 EXCEPT !.pc = "store", !.data = summary], fs |-> fs]

\* lines 220-229
sum_store(loc, fs, o) ==
    [loc |-> Finish(loc, StrV(loc.data)),
     fs |-> IF loc.enable /\ ~o.write_fails THEN write_file(fs, loc.path, loc.data)
            ELSE fs]

sum_except_reraise(loc) == Finish(loc, <<"raise", <<"Exception">>>>)

\* lines 231-233
sum_except(loc) == Fail(loc, None, MsgSummaryFailed)

sum_body(loc, fs, e, o, r) ==
    CASE loc.pc = "client" -> sum_client(loc, fs, e, o, r)
      [] loc.pc = "read" -> sum_read(loc, fs, o)
      [] loc.pc = "request" -> sum_request(loc, fs, o, r)
      [] loc.pc = "store" -> sum_store(loc, fs, o)
      [] OTHER -> [loc |-> loc, fs |-> fs]

\* one step of generate_openai_summary: the body inside its try
sum_step(loc, fs, e, o, r) ==
    LET b == sum_body(loc, fs, e, o, r) IN
    IF b.loc.pc = "raise" THEN [loc |-> sum_except(b.loc), fs |-> b.fs] ELSE b

RECURSIVE sum_run(_, _, _, _, _)
sum_run(loc, fs, e, o, r) ==
    IF loc.pc = "done" THEN [loc |-> loc, fs |-> fs]
    ELSE LET n == sum_step(loc, fs, e, o, r) IN sum_run(n.loc, n.fs, e, o, r)

generate_openai_summary(r, fs, e, o) == sum_run(Frame, fs, e, o, r)

----------------------------------------------------------------------------
(* Image Generator *)

ImageModel == <<"gpt-image-1">>

ActionsCap == 5

ImageOutPath == path_join(<<"output">>, <<"flow_social_image.png">>)

\* ", ".join(actions[:5]) raises TypeError on an item that is no str
actions_summary_raises(r) ==
    LET a == Take(derive_actions(r).actions, ActionsCap) IN
    \E i \in 1..Len(a) : ~IsStr(a[i])

actions_summary(r) ==
    LET actions == derive_actions(r).actions
        a == Take(actions, ActionsCap)
    IN  IF actions = <<>> THEN <<"browsing and interacting">>
        ELSE Join(<<", ">>, [i \in 1..Len(a) |-> PyStr(a[i])])

image_prompt(r) ==
    LET name == PyOr(Get(r.meta.name), StrV(<<"User Flow">>)) IN
    <<"Create a vibrant, professional social media graphic for a product demo titled '">>
      \o PyStr(name) \o <<"'. ">>
      \o <<"The visual should represent a compilation of actions like: ">>
      \o actions_summary(r) \o <<". ">>
      \o <<"Use modern UI/UX design elements, clean layout, and engaging colors. ">>
      \o <<"Style: matching the flow's theme, professional, tech-focused. No text overlay needed.">>

image_request(r) ==
    [api |-> "images.generate", model |-> ImageModel, prompt |-> image_prompt(r)]

http_request(url) == [api |-> "http.get", model |-> <<>>, prompt |-> PyStr(url)]

\* lines 238-263 up to the cache probe
img_client(loc, fs, e, o, r) ==
    LET c == get_openai_client(e, o) IN
    IF ~c.client THEN [loc |-> Fail(loc, <<"bool", <<"False">>>>, c.diag[1]), fs |-> fs]
    ELSE IF actions_summary_raises(r) THEN [loc |-> Throw(loc), fs |-> fs]
    ELSE LET prompt == image_prompt(r)
             enable_cache == is_cache_enabled(e)
             cache_path == image_cache_path(make_cache_key(prompt \o <<"\n">> \o ImageModel))
             l2 == [loc EXCEPT !.enable = enable_cache, !.path = cache_path,
                               !.data = prompt]
         IN  [loc |-> [l2 EXCEPT !.pc = IF enable_cache /\ exists(fs, cache_path)
                                        THEN "read" ELSE "request"],
              fs |-> fs]

\* lines 264-270
img_copy(loc, fs, o) ==
    IF o.read_fails THEN [loc |-> [loc EXCEPT !.pc = "request"], fs |-> fs]
    ELSE [loc |-> Finish([loc EXCEPT !.read = TRUE], <<"bool", <<"True">>>>),
          fs |-> write_file(fs, ImageOutPath, fs[loc.path])]

payload_of_attributes_only(resp) ==
    [b64 |-> IF resp.shape = "obj" THEN Get(resp.b64) ELSE None,
     url |-> IF resp.shape = "obj" THEN Get(resp.url) ELSE None]

\* lines 280-294: attributes of an SDK object, else the keys of a dict
payload_of(resp) ==
    LET b1 == IF resp.shape = "obj" THEN Get(resp.b64) ELSE None
        u1 == IF resp.shape = "obj" THEN Get(resp.url) ELSE None
    IN  IF b1 = None /\ resp.shape = "dict"
        THEN [b64 |-> Get(resp.b64), url |-> IF resp.url = Absent THEN u1 ELSE resp.url]
        ELSE [b64 |-> b1, url |-> u1]

\* lines 273-297
img_request(loc, fs, o, r) ==
    LET l2 == [loc EXCEPT !.ext = Append(@, image_request(r))] IN
    IF o.image.raises THEN [loc |-> Throw(l2), fs |-> fs]
    ELSE LET p == payload_of(o.image) IN
         [loc |-> [l2 EXCEPT !.pc = "persist", !.b64 = p.b64, !.url = p.url], fs |-> fs]

\* base64.b64decode on the payloads the model draws
b64decode(payload) ==
    IF payload = StrV(<<"QQ==">>) THEN Ok(<<"A">>)
    ELSE IF payload = StrV(<<"Qg==">>) THEN Ok(<<"B">>)
    ELSE Raised

\* lines 304-310 and 324-329: the best-effort write to the cache
cache_store(loc, fs, o, content) ==
    IF loc.enable /\ ~o.write_fails THEN write_file(fs, loc.path, content) ELSE fs

img_persist_caches_failed_download(loc, fs, o) ==
    IF Truthy(loc.b64) THEN
        LET d == b64decode(loc.b64) IN
        IF d.raised THEN [loc |-> Fail(loc, <<"bool", <<"False">>>>, MsgDecode), fs |-> fs]
        ELSE LET out == write_file(fs, ImageOutPath, d.val) IN
             [loc |-> Finish(loc, <<"bool", <<"True">>>>),
              fs |-> cache_store(loc, out, o, d.val)]
    ELSE IF Truthy(loc.url) THEN
        LET l2 == [loc EXCEPT !.ext = Append(@, http_request(loc.url))]
            out == write_file(fs, ImageOutPath, o.http.body)
        IN  IF o.http.fails
            THEN [loc |-> Fail(l2, <<"bool", <<"False">>>>, MsgDownload),
                  fs |-> cache_store(loc, out, o, out[ImageOutPath])]
            ELSE [loc |-> Finish(l2, <<"bool", <<"True">>>>),
                  fs |-> cache_store(loc, out, o, out[ImageOutPath])]
    ELSE [loc |-> Fail(loc, <<"bool", <<"False">>>>, MsgNoData), fs |-> fs]

\* lines 299-336
img_persist(loc, fs, o) ==
    IF Truthy(loc.b64) THEN
        LET d == b64decode(loc.b64) IN
        IF d.raised THEN [loc |-> Fail(loc, <<"bool", <<"False">>>>, MsgDecode), fs |-> fs]
        ELSE LET out == write_file(fs, ImageOutPath, d.val) IN
             [loc |-> Finish(loc, <<"bool", <<"True">>>>),
              fs |-> cache_store(loc, out, o, d.val)]
    ELSE IF Truthy(loc.url) THEN
        LET l2 == [loc EXCEPT !.ext = Append(@, http_request(loc.url))] IN
        IF o.http.fails
        THEN [loc |-> Fail(l2, <<"bool", <<"False">>>>, MsgDownload), fs |-> fs]
        ELSE LET out == write_file(fs, ImageOutPath, o.http.body) IN
             [loc |-> Finish(l2, <<"bool", <<"True">>>>),
              fs |-> cache_store(loc, out, o, out[ImageOutPath])]
    ELSE [loc |-> Fail(loc, <<"bool", <<"False">>>>, MsgNoData), fs |-> fs]

\* lines 338-340
img_except(loc) == Fail(loc, <<"bool", <<"False">>>>, MsgImageFailed)

img_body(loc, fs, e, o, r) ==
    CASE loc.pc = "client" -> img_client(loc, fs, e, o, r)
      [] loc.pc = "read" -> img_copy(loc, fs, o)
      [] loc.pc = "request" -> img_request(loc, fs, o, r)
      [] loc.pc = "persist" -> img_persist(loc, fs, o)
      [] OTHER -> [loc |-> loc, fs |-> fs]

\* one step of generate_social_image: the body inside its try
img_step(loc, fs, e, o, r) ==
    LET b == img_body(loc, fs, e, o, r) IN
    IF b.loc.pc = "raise" THEN [loc |-> img_except(b.loc), fs |-> b.fs] ELSE b

RECURSIVE img_run(_, _, _, _, _)
img_run(loc, fs, e, o, r) ==
    IF loc.pc = "done" THEN [loc |-> loc, fs |-> fs]
    ELSE LET n == img_step(loc, fs, e, o, r) IN img_run(n.loc, n.fs, e, o, r)

generate_social_image(r, fs, e, o) == img_run(Frame, fs, e, o, r)

----------------------------------------------------------------------------
(* Flow Loader and Output Writer *)

\* the file is absent, is no JSON, or cannot be read: None in every case
load_flow(o, f) == IF o.load = "ok" THEN Ok(f) ELSE Raised

SummaryOutPath == path_join(<<"output">>, <<"flow_summary.md">>)

Placeholder ==
    <<"# Flow Summary", "\n", "\n", "OpenAI summary not available. See stderr for details.">>

\* f.write((summary_text or "").strip() + "\n")
write_summary_to_file(fs, summary_text, out_path) ==
    write_file(fs, out_path, strip(summary_text) \o <<"\n">>)

----------------------------------------------------------------------------
(* Inputs: flows, environments and the behaviour of the outside world *)

S(a) == StrV(<<a>>)

NoPage == [kind |-> "absent", title |-> Absent, url |-> Absent]

NoClick == [kind |-> "absent", text |-> Absent, cssSelector |-> Absent,
            elementType |-> Absent]

Page(title) == [kind |-> "dict", title |-> title, url |-> S("https://shop.example/")]

Click(text) == [kind |-> "dict", text |-> text, cssSelector |-> S("#buy"),
                elementType |-> S("button")]

Entry(id, type, title, page, click) ==
    [obj |-> TRUE, id |-> id, type |-> type, title |-> title, subtitle |-> Absent,
     pageContext |-> page, clickContext |-> click,
     hotspots |-> IF click.kind = "dict"
                  THEN <<[obj |-> TRUE, label |-> S("A")], [obj |-> TRUE, label |-> StrV(<<>>)],
                         [obj |-> FALSE, label |-> Absent], [obj |-> TRUE, label |-> S("B")]>>
                  ELSE <<>>]

\* an entry of "steps" that is a string, a number or null
NonObject ==
    [obj |-> FALSE, id |-> Absent, type |-> Absent, title |-> Absent, subtitle |-> Absent,
     pageContext |-> NoPage, clickContext |-> NoClick, hotspots |-> <<>>]

MkFlow(name, useCase, present, list) ==
    [name |-> name, useCase |-> useCase, schemaVersion |-> Absent, description |-> Absent,
     status |-> Absent, created |-> Absent, steps |-> [present |-> present, list |-> list]]

ChapterStart == Entry(S("c1"), S("CHAPTER"), S("Start"), NoPage, NoClick)

ImageBuy == Entry(S("s1"), S("IMAGE"), Absent, Page(S("Home")), Click(S("Clicked Buy Now")))

ImageNum == Entry(S("s2"), S("IMAGE"), Absent, NoPage, Click(NumV(<<"7">>)))

\* a flow of ActionCap + 1 image steps whose last step carries the given click text
LongSteps(last) ==
    [i \in 1..(ActionCap + 1) |->
        IF i <= ActionCap THEN ImageBuy
        ELSE Entry(S("s26"), S("VIDEO"), Absent, NoPage, Click(last))]

\* the numbers of a flow that are no strings: its name and a click text
ImageNumFlow == MkFlow(NumV(<<"5">>), Absent, TRUE, <<ImageNum>>)

GenFlows ==
    << MkFlow(S("Checkout Demo"), S("sales"), TRUE, <<ChapterStart, ImageBuy>>),
       MkFlow(S("Checkout Demo"), S("support"), TRUE, <<ChapterStart, ImageBuy>>),
       ImageNumFlow >>

GenReports == [i \in 1..Len(GenFlows) |-> build_report(GenFlows[i]).val]

Envs ==
    {[ENABLE_CACHE |-> c, OPENAI_API_KEY |-> S("sk-test")] : c \in {Absent, S("1"), S("0")}}
    \cup {[ENABLE_CACHE |-> Absent, OPENAI_API_KEY |-> Absent]}

NoText == [raises |-> FALSE, content |-> None]

NoImage == [raises |-> FALSE, shape |-> "obj", b64 |-> Absent, url |-> Absent]

NoHttp == [fails |-> FALSE, body |-> <<>>]

Calm ==
    [load |-> "ok", construct_ok |-> TRUE, read_fails |-> FALSE, write_fails |-> FALSE,
     text |-> NoText, image |-> NoImage, http |-> NoHttp]

\* the contents the text service answers with
TextContents ==
    {None, StrV(<<>>), StrV(<<" ", "\n">>), NumV(<<"3">>), StrV(<<"a">>),
     StrV(<<" ", "a", " ", "b", "\n">>)}

\* the failures of the cache a call meets: none, its read or copy, its write
CacheFaults == {<<FALSE, FALSE>>, <<TRUE, FALSE>>, <<FALSE, TRUE>>}

\* what one narrative call meets
SumOracles ==
    {[Calm EXCEPT !.construct_ok = FALSE]}
    \cup {[Calm EXCEPT !.read_fails = rf, !.text = [raises |-> TRUE, content |-> None]] :
             rf \in BOOLEAN}
    \cup {[Calm EXCEPT !.read_fails = cf[1], !.write_fails = cf[2],
                       !.text = [raises |-> FALSE, content |-> c]] :
             cf \in CacheFaults, c \in TextContents}

Url == S("https://img.example/1.png")

ImageResponses ==
    {[raises |-> FALSE, shape |-> "obj", b64 |-> b, url |-> u] :
        b \in {Absent, StrV(<<>>), S("QQ=="), S("QQ")}, u \in {Absent, Url}}
    \cup {[raises |-> FALSE, shape |-> "dict", b64 |-> Absent, url |-> Url],
          [raises |-> FALSE, shape |-> "dict", b64 |-> S("Qg=="), url |-> Absent],
          [raises |-> FALSE, shape |-> "dict", b64 |-> Absent, url |-> Absent]}

NoHttpUse == [fails |-> TRUE, body |-> <<>>]

HttpOutcomes == {NoHttpUse, [fails |-> FALSE, body |-> <<"C">>]}

\* the response sends the generator to the download
UsesHttp(i) == ~Truthy(payload_of(i).b64) /\ Truthy(payload_of(i).url)

\* the responses the repeated calls draw from
CallResponses ==
    {[raises |-> FALSE, shape |-> "obj", b64 |-> b, url |-> u] :
        b \in {Absent, S("QQ=="), S("QQ")}, u \in {Absent, Url}}
    \cup {[raises |-> FALSE, shape |-> "dict", b64 |-> Absent, url |-> Url]}

\* what one image call meets, its response drawn from the given set
ImgOraclesOver(responses) ==
    {[Calm EXCEPT !.construct_ok = FALSE]}
    \cup {[Calm EXCEPT !.read_fails = rf, !.image = [NoImage EXCEPT !.raises = TRUE]] :
             rf \in BOOLEAN}
    \cup {o \in {[Calm EXCEPT !.read_fails = cf[1], !.write_fails = cf[2],
                              !.image = i, !.http = h] :
                    cf \in CacheFaults, i \in responses, h \in HttpOutcomes} :
             o.http = NoHttpUse \/ UsesHttp(o.image)}

ImgOracles == ImgOraclesOver(CallResponses)

----------------------------------------------------------------------------
(* The generators called one after another, the environment changing in between *)

MaxCalls == 2

NoCall ==
    [gen |-> "none", env |-> [ENABLE_CACHE |-> Absent, OPENAI_API_KEY |-> Absent],
     keyed |-> FALSE, path |-> <<>>, before |-> NoFiles,
     result |-> Absent, ext |-> <<>>, diag |-> <<>>, read |-> FALSE, client |-> FALSE]

Succeeded(result) == result[1] = "str" \/ result = <<"bool", <<"True">>>>

\* the record of a finished call: what it met and what it did
CallRecord(gen, e, o, fs, run, path, keyed) ==
    [gen |-> gen, env |-> e, keyed |-> keyed, path |-> path, before |-> fs,
     result |-> run.loc.result, ext |-> run.loc.ext, diag |-> run.loc.diag,
     read |-> run.loc.read,
     client |-> Truthy(Get(e.OPENAI_API_KEY)) /\ o.construct_ok]

\* the content a call that asked the service handed to its caller
Delivered(gen, run) ==
    IF gen = "summary" THEN PyStr(run.loc.result) ELSE run.fs[ImageOutPath]

\* a generation request is among the external calls
AskedIn(ext) == \E i \in 1..Len(ext) : ext[i].api # "http.get"

Asked(run) == AskedIn(run.loc.ext)

Bookkeeping(gen, e, o, run, path, keyed, request) ==
    /\ files' = run.fs
    /\ call' = CallRecord(gen, e, o, files, run, path, keyed)
    /\ ncalls' = ncalls + 1
    /\ fetched' = IF Asked(run) /\ Succeeded(run.loc.result)
                  THEN fetched \cup {<<path, Delivered(gen, run)>>} ELSE fetched
    /\ origin' = IF /\ Asked(run) /\ Succeeded(run.loc.result)
                    /\ path \in DOMAIN run.fs
                    /\ run.fs[path] = Delivered(gen, run)
                 THEN (path :> request) @@ origin ELSE origin

CallSummary ==
    /\ ncalls < MaxCalls
    /\ \E i \in 1..Len(GenFlows), o \in SumOracles :
          LET r == GenReports[i]
              run == generate_openai_summary(r, files, env, o)
              keyed == ~summary_key_raises(r)
              path == IF keyed THEN summary_cache_path(make_cache_key(summary_key_text(r)))
                      ELSE <<>>
          IN  /\ flow' = GenFlows[i]
              /\ report' = r
              /\ Bookkeeping("summary", env, o, run, path, keyed, summary_request(r))
    /\ UNCHANGED <<pc, derived, env, orc, nloc, iloc>>

CallImage ==
    /\ ncalls < MaxCalls
    /\ \E i \in 1..Len(GenFlows), o \in ImgOracles :
          LET r == GenReports[i]
              run == generate_social_image(r, files, env, o)
              keyed == ~actions_summary_raises(r)
              path == IF keyed
                      THEN image_cache_path(make_cache_key(image_prompt(r) \o <<"\n">> \o ImageModel))
                      ELSE <<>>
          IN  /\ flow' = GenFlows[i]
              /\ report' = r
              /\ Bookkeeping("image", env, o, run, path, keyed, image_request(r))
    /\ UNCHANGED <<pc, derived, env, orc, nloc, iloc>>

\* the process environment differs from one run of the script to the next
SetEnv ==
    /\ \E e \in Envs : e # env /\ env' = e
    /\ UNCHANGED <<flow, pc, report, derived, files, call, ncalls, fetched, origin, orc, nloc, iloc>>

Init ==
    /\ flow = GenFlows[1]
    /\ pc = "idle"
    /\ report = NoReport
    /\ derived = [action_lines |-> <<>>, actions |-> <<>>]
    /\ files = NoFiles
    /\ env \in Envs
    /\ call = NoCall
    /\ ncalls = 0
    /\ fetched = {}
    /\ origin = [p \in {} |-> <<>>]
    /\ orc = Calm
    /\ nloc = Frame
    /\ iloc = Frame

Next == CallSummary \/ CallImage \/ SetEnv

Spec == Init /\ [][Next]_vars

----------------------------------------------------------------------------
(* Properties of the generators, on the record of the call that just ended *)

\* ENABLE_CACHE is set to something other than "1"
SwitchOff(e) == e.ENABLE_CACHE # Absent /\ e.ENABLE_CACHE # S("1")

Called == call.gen # "none"

\* caching is enabled and an entry exists under the key of the request
Hit == Called /\ ~SwitchOff(call.env) /\ call.keyed /\ call.path \in DOMAIN call.before

RequestOf(gen, r) == IF gen = "summary" THEN summary_request(r) ELSE image_request(r)

True == <<"bool", <<"True">>>>

False == <<"bool", <<"False">>>>

\* C1: a call made while caching is enabled and an entry exists under its key
\* performs no external call and delivers exactly the cached content (the
\* narrative returned is the cached text; the destination holds the cached
\* image bytes and the call reports success).
C1_HitServesCache ==
    Hit =>
        /\ call.ext = <<>>
        /\ call.gen = "summary" => call.result = StrV(call.before[call.path])
        /\ call.gen = "image" =>
              /\ call.result = True
              /\ ImageOutPath \in DOMAIN files
              /\ files[ImageOutPath] = call.before[call.path]

\* C2 as stated: with the switch off every call reads no cache entry, attempts
\* the live external call, and leaves the cache directory unchanged.
C2_DisabledAlwaysCallsLive ==
    Called /\ SwitchOff(call.env) =>
        /\ ~call.read
        /\ AskedIn(call.ext)
        /\ CacheOf(files) = CacheOf(call.before)

\* C2 amended: with the switch off no cache entry is read and the cache
\* directory is left unchanged, and the live external call is attempted by
\* every call that obtained a client and could build its request.
C2_DisabledBypassesCache ==
    Called /\ SwitchOff(call.env) =>
        /\ ~call.read
        /\ CacheOf(files) = CacheOf(call.before)
        /\ (call.client /\ call.keyed) => AskedIn(call.ext)
        /\ ~(call.client /\ call.keyed) => call.ext = <<>> /\ ~Succeeded(call.result)

C2_Witness ==
    /\ Called /\ SwitchOff(call.env)
    /\ call.keyed /\ call.path \in DOMAIN call.before
    /\ AskedIn(call.ext) /\ Succeeded(call.result)

\* C3: every cache entry holds the content that a successful external call
\* with that key delivered to its caller; a call that fails creates no entry
\* and leaves the existing ones unchanged; no call deletes an entry.
C3_CacheProvenance ==
    /\ \A p \in DOMAIN CacheOf(files) : <<p, files[p]>> \in fetched
    /\ Called => DOMAIN CacheOf(call.before) \subseteq DOMAIN CacheOf(files)
    /\ Called /\ ~Succeeded(call.result) => CacheOf(files) = CacheOf(call.before)

C3_Witness ==
    /\ Called /\ ~Succeeded(call.result) /\ AskedIn(call.ext)
    /\ call.keyed /\ call.path \in DOMAIN call.before
    /\ files[call.path] = call.before[call.path]

\* C4: a cache hit never returns content that was obtained for a different
\* external request: the entry a call is served from was stored by a call
\* that sent the very request this call would send.
C4_HitServesSameRequest ==
    Called /\ call.read =>
        /\ call.path \in DOMAIN origin
        /\ origin[call.path] = RequestOf(call.gen, report)

\* C5: no failure escapes a generator: the narrative generator returns
\* non-empty text or None, the image generator returns True or False, and
\* every None or False comes with a diagnostic message.
C5_NoFailureEscapes ==
    Called =>
        /\ call.gen = "summary" =>
              \/ call.result = None
              \/ call.result[1] = "str" /\ call.result[2] # <<>>
        /\ call.gen = "image" => call.result \in {True, False}
        /\ ~Succeeded(call.result) => Len(call.diag) >= 1

C5_Witness ==
    /\ Called /\ call.gen = "summary" /\ call.client /\ ~call.keyed
    /\ call.result = None /\ call.diag = <<MsgSummaryFailed>>

----------------------------------------------------------------------------
(* The report builder and the action deriver applied to flows drawn from a pool *)

MaxSteps == 2

StepPool ==
    { ChapterStart,
      Entry(S("c2"), S("CHAPTER"), Absent, NoPage, NoClick),
      ImageBuy,
      Entry(S("s3"), S("IMAGE"), Absent, Page(S("Home")), NoClick),
      Entry(Absent, S("VIDEO"), Absent, NoPage, NoClick),
      Entry(S("s4"), S("VIDEO"), S("Ignored"), Page(StrV(<<>>)), Click(StrV(<<>>))),
      Entry(S("n1"), S("NOTE"), S("Remark"), NoPage, Click(S("Hidden"))),
      Entry(S("x1"), Absent, Absent, NoPage, NoClick),
      NonObject }

RECURSIVE SeqsUpTo(_, _)
SeqsUpTo(pool, n) ==
    IF n = 0 THEN {<<>>}
    ELSE LET shorter == SeqsUpTo(pool, n - 1) IN
         shorter \cup {Append(q, x) : q \in {t \in shorter : Len(t) = n - 1}, x \in pool}

BuildFlows ==
    {MkFlow(S("Checkout Demo"), S("sales"), TRUE, l) : l \in SeqsUpTo(StepPool, MaxSteps)}
    \cup {MkFlow(Absent, Absent, FALSE, <<>>),
          MkFlow(S("Long"), Absent, TRUE, LongSteps(S("Pay")))}

Quiet ==
    /\ files = NoFiles
    /\ env = [ENABLE_CACHE |-> Absent, OPENAI_API_KEY |-> Absent]
    /\ call = NoCall
    /\ ncalls = 0
    /\ fetched = {}
    /\ origin = [p \in {} |-> <<>>]
    /\ orc = Calm
    /\ nloc = Frame
    /\ iloc = Frame

InitBuild ==
    /\ flow \in BuildFlows
    /\ pc = "start"
    /\ report = NoReport
    /\ derived = [action_lines |-> <<>>, actions |-> <<>>]
    /\ Quiet

\* report = build_report(data); a raise ends the script
Build ==
    /\ pc = "start"
    /\ LET b == build_report(flow) IN
       IF b.raised THEN pc' = "crashed" /\ report' = report
       ELSE pc' = "built" /\ report' = b.val
    /\ UNCHANGED <<flow, derived, files, env, call, ncalls, fetched, origin, orc, nloc, iloc>>

Derive ==
    /\ pc = "built"
    /\ derived' = derive_actions(report)
    /\ pc' = "derived"
    /\ UNCHANGED <<flow, report, files, env, call, ncalls, fetched, origin, orc, nloc, iloc>>

NextBuild == Build \/ Derive

SpecBuild == InitBuild /\ [][NextBuild]_vars

HasText(v) == Truthy(Get(v))

IsChapter(s) == Get(s.type) = S("CHAPTER")

\* the line the action deriver owes one step of a report
ExpectedLine(s) ==
    IF IsChapter(s) /\ HasText(s.title) THEN <<"CHAPTER", ": ">> \o s.title[2]
    ELSE IF HasText(s.clickText) THEN Get(s.type)[2] \o <<": ">> \o s.clickText[2]
    ELSE IF HasText(s.pageTitle) THEN Get(s.type)[2] \o <<": ">> \o s.pageTitle[2]
    ELSE IF HasText(s.title) THEN Get(s.type)[2] \o <<": ">> \o s.title[2]
    ELSE Get(s.type)[2]

\* the step takes the click-text branch
ClickStep(s) == ~(IsChapter(s) /\ HasText(s.title)) /\ HasText(s.clickText)

\* C8: derive_actions returns one action line per step, in step order, of the
\* form the step's fields select, and the click texts of exactly the steps that
\* took the click-text branch, in step order, chapters excluded.
C8_DerivedActions ==
    pc = "derived" =>
        LET st == report.steps
            clicks == SelectSeq(st, ClickStep)
        IN  /\ Len(derived.action_lines) = Len(st)
            /\ \A i \in 1..Len(st) : derived.action_lines[i] = ExpectedLine(st[i])
            /\ derived.actions = [i \in 1..Len(clicks) |-> clicks[i].clickText]
            /\ \A i \in 1..Len(clicks) : ~IsChapter(clicks[i])

C8_Witness ==
    /\ pc = "derived"
    /\ derived.action_lines = << <<"CHAPTER", ": ", "Start">>,
                                 <<"IMAGE", ": ", "Clicked Buy Now">> >>
    /\ derived.actions = << S("Clicked Buy Now") >>

ObjectEntries(l) == \A i \in 1..Len(l) : l[i].obj

\* C10: build_report returns a report for a flow whose steps are missing,
\* empty, hold entries that are no objects, or hold steps without an id:
\* missing steps give empty chapters and steps, and a step without id is in
\* the step list at its input position.
C10_ToleratesMalformedSteps ==
    /\ pc # "crashed"
    /\ pc = "built" =>
          /\ ~flow.steps.present => report.chapters = <<>> /\ report.steps = <<>>
          /\ ObjectEntries(StepsOf(flow)) =>
                /\ Len(report.steps) = Len(StepsOf(flow))
                /\ \A i \in 1..Len(report.steps) :
                      /\ report.steps[i].id = Get(StepsOf(flow)[i].id)
                      /\ report.steps[i].type = Get(StepsOf(flow)[i].type)

----------------------------------------------------------------------------
(* One run of the script, against a cache left by earlier runs *)

MalformedFlow == MkFlow(S("Broken"), Absent, TRUE, <<ChapterStart, NonObject>>)

RunFlows ==
    { GenFlows[1], ImageNumFlow, MalformedFlow,
      MkFlow(Absent, Absent, FALSE, <<>>),
      MkFlow(S("Long"), Absent, TRUE, LongSteps(S("Pay"))) }

SummaryPathOf(r) == summary_cache_path(make_cache_key(summary_key_text(r)))

ImagePathOf(r) == image_cache_path(make_cache_key(image_prompt(r) \o <<"\n">> \o ImageModel))

\* what earlier runs on the same flow may have left on disk
LeftBy(f) ==
    LET b == build_report(f)
        sumEntry == IF ~b.raised /\ ~summary_key_raises(b.val)
                    THEN (SummaryPathOf(b.val) :> <<"old", " ", "text">>) ELSE NoFiles
        imgEntry == IF ~b.raised /\ ~actions_summary_raises(b.val)
                    THEN (ImagePathOf(b.val) :> <<"O">>) ELSE NoFiles
        oldOut == (ImageOutPath :> <<"X">>)
    IN  {NoFiles, sumEntry @@ oldOut, sumEntry @@ imgEntry @@ oldOut}

TextFew == {[raises |-> FALSE, content |-> StrV(<<"a">>)],
            [raises |-> FALSE, content |-> StrV(<<" ", "\n">>)]}

ImageFew == {[raises |-> FALSE, shape |-> "obj", b64 |-> S("QQ=="), url |-> Absent],
             NoImage}

RunOracles ==
    {[o EXCEPT !.image = i] : o \in SumOracles, i \in ImageFew}
    \cup {[o EXCEPT !.text = t] : o \in ImgOraclesOver(ImageResponses), t \in TextFew}
    \cup {[Calm EXCEPT !.load = l] : l \in {"missing", "invalid", "unreadable"}}

InitRun ==
    /\ flow \in RunFlows
    /\ pc = "load"
    /\ report = NoReport
    /\ derived = [action_lines |-> <<>>, actions |-> <<>>]
    /\ files \in LeftBy(flow)
    /\ env \in Envs
    /\ call = NoCall
    /\ ncalls = 0
    /\ fetched = {}
    /\ origin = [p \in {} |-> <<>>]
    /\ orc \in RunOracles
    /\ nloc = Frame
    /\ iloc = Frame

\* lines 345-347
Load ==
    /\ pc = "load"
    /\ pc' = IF load_flow(orc, flow).raised THEN "exit1" ELSE "loaded"
    /\ UNCHANGED <<flow, report, derived, files, env, call, ncalls, fetched, origin, orc, nloc, iloc>>

\* line 350
BuildReport ==
    /\ pc = "loaded"
    /\ LET b == build_report(flow) IN
       IF b.raised THEN pc' = "crashed" /\ report' = report
       ELSE pc' = "built" /\ report' = b.val
    /\ UNCHANGED <<flow, derived, files, env, call, ncalls, fetched, origin, orc, nloc, iloc>>

\* line 353
Summarise ==
    /\ pc = "built"
    /\ LET run == generate_openai_summary(report, files, env, orc) IN
       /\ nloc' = run.loc
       /\ files' = run.fs
       /\ call' = CallRecord("summary", env, orc, files, run, run.loc.path,
                             ~summary_key_raises(report))
    /\ pc' = "summarised"
    /\ UNCHANGED <<flow, report, derived, env, ncalls, fetched, origin, orc, iloc>>

\* lines 360-367
WriteSummary ==
    /\ pc = "summarised"
    /\ files' = IF Truthy(nloc.result)
                THEN write_summary_to_file(files, PyStr(nloc.result), SummaryOutPath)
                ELSE write_summary_to_file(files, Placeholder, SummaryOutPath)
    /\ pc' = "written"
    /\ UNCHANGED <<flow, report, derived, env, call, ncalls, fetched, origin, orc, nloc, iloc>>

\* line 370
MakeImage ==
    /\ pc = "written"
    /\ LET run == generate_social_image(report, files, env, orc) IN
       /\ iloc' = run.loc
       /\ files' = run.fs
       /\ call' = CallRecord("image", env, orc, files, run, run.loc.path,
                             ~actions_summary_raises(report))
    /\ pc' = "end"
    /\ UNCHANGED <<flow, report, derived, env, ncalls, fetched, origin, orc, nloc>>

NextRun == Load \/ BuildReport \/ Summarise \/ WriteSummary \/ MakeImage

SpecRun == InitRun /\ [][NextRun]_vars

\* the text service answered with an empty or whitespace-only string
EmptyAnswer ==
    /\ AskedIn(nloc.ext) /\ ~orc.text.raises
    /\ IsStr(orc.text.content) /\ strip(orc.text.content[2]) = <<>>

\* C6: an empty or whitespace-only answer of the text service makes the
\* narrative generator return None and cache nothing; and whenever the
\* narrative is absent the script writes the placeholder to the summary path
\* and goes on to image generation.
C6_EmptyNarrativeGivesPlaceholder ==
    [][ /\ pc' = "summarised" /\ EmptyAnswer' =>
              /\ nloc'.result = None
              /\ CacheOf(files') = CacheOf(files)
        /\ pc = "summarised" /\ ~Truthy(nloc.result) =>
              /\ nloc.result = None
              /\ files' = write_file(files, SummaryOutPath, Placeholder \o <<"\n">>)
              /\ pc' = "written"
        /\ pc = "written" => pc' = "end" /\ iloc'.pc = "done"
      ]_vars

C6_Witness ==
    /\ pc = "end" /\ EmptyAnswer
    /\ orc.text.content = StrV(<<" ", "\n">>)
    /\ files[SummaryOutPath] = Placeholder \o <<"\n">>
    /\ iloc.result = True

HttpIn(ext) == \E i \in 1..Len(ext) : ext[i].api = "http.get"

\* the image service answered the request of this run
ImageAnswered == pc = "end" /\ AskedIn(iloc.ext) /\ ~orc.image.raises

HasB64 == Truthy(Get(orc.image.b64))

HasUrl == Truthy(Get(orc.image.url))

\* C9: on a cache miss the image generator branches on the payload of the
\* response: a URL alone is fetched over HTTP and the fetched bytes are
\* written verbatim to the destination; inline base64 alone is decoded and
\* written with no HTTP request; neither gives the no-image-data failure and
\* writes nothing to the destination or the cache.
C9_PayloadVariants ==
    ImageAnswered =>
        /\ (HasUrl /\ ~HasB64) =>
              /\ iloc.ext = <<image_request(report), http_request(orc.image.url)>>
              /\ ~orc.http.fails =>
                    iloc.result = True /\ files[ImageOutPath] = orc.http.body
              /\ orc.http.fails => iloc.result = False /\ iloc.diag = <<MsgDownload>>
        /\ (HasB64 /\ ~HasUrl) =>
              /\ ~HttpIn(iloc.ext)
              /\ ~b64decode(orc.image.b64).raised =>
                    /\ iloc.result = True
                    /\ files[ImageOutPath] = b64decode(orc.image.b64).val
              /\ b64decode(orc.image.b64).raised =>
                    iloc.result = False /\ iloc.diag = <<MsgDecode>>
        /\ (~HasB64 /\ ~HasUrl) =>
              /\ iloc.result = False /\ iloc.diag = <<MsgNoData>>
              /\ ~HttpIn(iloc.ext)
              /\ files = call.before

C9_Witness ==
    /\ ImageAnswered /\ HasUrl /\ ~HasB64 /\ orc.image.shape = "dict"
    /\ iloc.result = True /\ files[ImageOutPath] = <<"C">>
    /\ ImageOutPath \in DOMAIN call.before

----------------------------------------------------------------------------
(* The two generators run side by side on one report, step by step *)

ParFlows == {GenFlows[1], ImageNumFlow, MkFlow(Absent, Absent, FALSE, <<>>)}

InitPar ==
    /\ flow \in ParFlows
    /\ pc = "par"
    /\ report = build_report(flow).val
    /\ derived = [action_lines |-> <<>>, actions |-> <<>>]
    /\ files \in LeftBy(flow)
    /\ env \in Envs
    /\ call = [NoCall EXCEPT !.before = files]
    /\ ncalls = 0
    /\ fetched = {}
    /\ origin = [p \in {} |-> <<>>]
    /\ orc \in {o \in RunOracles : o.load = "ok"}
    /\ nloc = Frame
    /\ iloc = Frame

NarrativeStep ==
    /\ nloc.pc # "done"
    /\ LET n == sum_step(nloc, files, env, orc, report) IN
       nloc' = n.loc /\ files' = n.fs
    /\ UNCHANGED <<flow, pc, report, derived, env, call, ncalls, fetched, origin, orc, iloc>>

ImageStep ==
    /\ iloc.pc # "done"
    /\ LET n == img_step(iloc, files, env, orc, report) IN
       iloc' = n.loc /\ files' = n.fs
    /\ UNCHANGED <<flow, pc, report, derived, env, call, ncalls, fetched, origin, orc, nloc>>

NextPar == NarrativeStep \/ ImageStep

SpecPar == InitPar /\ [][NextPar]_vars

BothDone == pc = "par" /\ nloc.pc = "done" /\ iloc.pc = "done"

\* C7: whatever the interleaving of the two generators' steps, the narrative
\* result, the image result and the files left on disk are those of running
\* the narrative generator and then the image generator, and those of running
\* them in the reverse order.
C7_OrderInsensitive ==
    BothDone =>
        LET n1 == generate_openai_summary(report, call.before, env, orc)
            i1 == generate_social_image(report, n1.fs, env, orc)
            i2 == generate_social_image(report, call.before, env, orc)
            n2 == generate_openai_summary(report, i2.fs, env, orc)
        IN  /\ nloc.result = n1.loc.result /\ iloc.result = i1.loc.result
            /\ files = i1.fs
            /\ nloc.result = n2.loc.result /\ iloc.result = i2.loc.result
            /\ files = n2.fs

C7_Witness ==
    /\ BothDone
    /\ call.before = NoFiles
    /\ AskedIn(nloc.ext) /\ AskedIn(iloc.ext)
    /\ Cardinality(DOMAIN CacheOf(files)) = 2

====
